---- MODULE Spec2Model ----
(***************************************************************************)
(* A model of scripts/transcribe.py: the command-line entry point and      *)
(* transcribe_video, with the temporary audio file, the external media     *)
(* tool, the speech model and the two output streams as state.             *)
(*                                                                         *)
(* A text is a sequence of characters.  A character is a one-element       *)
(* string; a run of ordinary characters that no conversion looks into      *)
(* ("Usage: ...", "ffmpeg") is kept as one element.                        *)
(***************************************************************************)
EXTENDS Integers, Sequences, FiniteSets, TLC

VARIABLES
    sys_argv,          \* sys.argv: the script name, then the positional arguments
    pc,                \* the statement the process is at
    video_path,        \* __main__: video_path
    model_size,        \* __main__: model_size
    audio_path,        \* transcribe_video: audio_path
    tmp,               \* the temporary audio file on disk
    toolStderr,        \* what the media tool wrote to its own stderr
    info,              \* transcribe_video: info
    segments,          \* the segment generator: what it has still to yield
    yielded,           \* the segment texts the generator has yielded so far
    transcript_parts,  \* transcribe_video: transcript_parts
    result,            \* the dict transcribe_video returns
    exc,               \* the exception in flight, if one is
    stdout,            \* lines printed to standard output
    stderr,            \* lines printed to standard error
    exitCode,          \* <<>> while the process runs, then <<its exit status>>
    log                \* the external steps taken so far, in order

vars == <<sys_argv, pc, video_path, model_size, audio_path, tmp, toolStderr,
          info, segments, yielded, transcript_parts, result, exc, stdout,
          stderr, exitCode, log>>

-----------------------------------------------------------------------------
(* Characters the conversions treat specially. *)
SP == " "
DQ == "\""
SQ == "'"
BS == "\\"
NL == "\n"

(* Bounds of the model. *)
MaxArgs == 3
MaxSegs == 2

-----------------------------------------------------------------------------
(* Python sequence and string primitives. *)

PyLen(s) == Len(s)

\* s[i], Python's zero-based index
PyIndex(s, i) == s[i + 1]

IsSpace(c) == c \in {SP, NL, "\t"}

RECURSIVE LStrip(_)
LStrip(s) == IF s # <<>> /\ IsSpace(Head(s)) THEN LStrip(Tail(s)) ELSE s

RECURSIVE RStrip(_)
RStrip(s) ==
    IF s # <<>> /\ IsSpace(s[Len(s)]) THEN RStrip(SubSeq(s, 1, Len(s) - 1)) ELSE s

StripLeftOnly(s) == LStrip(s)

\* str.strip()
Strip(s) == RStrip(LStrip(s))

\* sep.join(parts)
RECURSIVE Join(_, _)
Join(sep, parts) ==
    IF parts = <<>> THEN <<>>
    ELSE IF Len(parts) = 1 THEN parts[1]
    ELSE parts[1] \o sep \o Join(sep, Tail(parts))

\* the body of repr(s) for a str s, between its quotes
RECURSIVE ReprBody(_, _)
ReprBody(s, q) ==
    IF s = <<>> THEN <<>>
    ELSE LET c == Head(s)
             e == IF c = BS THEN <<BS, BS>>
                  ELSE IF c = NL THEN <<BS, "n">>
                  ELSE IF c = q THEN <<BS, q>>
                  ELSE <<c>>
         IN  e \o ReprBody(Tail(s), q)

\* repr(s) for a str s: single quotes, unless s holds a ' and no "
PyRepr(s) ==
    LET hasSQ == \E i \in 1..Len(s) : s[i] = SQ
        hasDQ == \E i \in 1..Len(s) : s[i] = DQ
        q     == IF hasSQ /\ ~hasDQ THEN DQ ELSE SQ
    IN  <<q>> \o ReprBody(s, q) \o <<q>>

\* str(l) for a list l of str
RECURSIVE ReprItems(_)
ReprItems(l) ==
    IF l = <<>> THEN <<>>
    ELSE IF Len(l) = 1 THEN PyRepr(l[1])
    ELSE PyRepr(l[1]) \o <<",", SP>> \o ReprItems(Tail(l))

PyListStr(l) == <<"[">> \o ReprItems(l) \o <<"]">>

-----------------------------------------------------------------------------
(* Python values that reach json.dumps: a str or a float serialises; a      *)
(* numpy scalar, which the recognition library may hand back, does not.     *)
PyStr(t)     == [ty |-> "str",     v |-> t]
PyFloat(x)   == [ty |-> "float",   v |-> <<x>>]
PyFloat32(x) == [ty |-> "float32", v |-> <<x>>]

\* the characters of a str inside a JSON string
RECURSIVE JsonEscape(_)
JsonEscape(s) ==
    IF s = <<>> THEN <<>>
    ELSE LET c == Head(s)
             e == IF c = DQ THEN <<BS, DQ>>
                  ELSE IF c = BS THEN <<BS, BS>>
                  ELSE IF c = NL THEN <<BS, "n">>
                  ELSE <<c>>
         IN  e \o JsonEscape(Tail(s))

JsonEncodeStr(s) == <<DQ>> \o JsonEscape(s) \o <<DQ>>

JsonSerializable(d) == \A i \in 1..Len(d) : d[i][2].ty \in {"str", "float"}

JsonEncodeValue(x) == IF x.ty = "str" THEN JsonEncodeStr(x.v) ELSE x.v

RECURSIVE JsonMembers(_)
JsonMembers(d) ==
    IF d = <<>> THEN <<>>
    ELSE LET m == JsonEncodeStr(<<d[1][1]>>) \o <<":", SP>> \o JsonEncodeValue(d[1][2])
         IN  IF Len(d) = 1 THEN m ELSE m \o <<",", SP>> \o JsonMembers(Tail(d))

\* json.dumps(d) for a dict d, given as its items in insertion order
JsonDumps(d) == <<"{">> \o JsonMembers(d) \o <<"}">>

\* str(e) of the TypeError json.dumps raises
StrNotSerializable == <<"Object of type float32 is not JSON serializable">>

-----------------------------------------------------------------------------
(* Exceptions of the standard library and their str(). *)

\* str(CalledProcessError(returncode, cmd)) for a returncode >= 0
StrCalledProcessError(cmd, returncode) ==
    <<"Command ", SQ>> \o PyListStr(cmd)
        \o <<SQ, " returned non-zero exit status ", returncode, ".">>

\* str(FileNotFoundError) when the executable is not on the path
StrFileNotFound(prog) == <<"[Errno 2] No such file or directory: ">> \o PyRepr(prog)

\* str(FileNotFoundError) when tempfile finds no directory it can write to
StrNoTempDir == <<"[Errno 2] No usable temporary directory found">>

NoExc == [raised |-> FALSE, msg |-> <<>>]
Raise(m) == [raised |-> TRUE, msg |-> m]

-----------------------------------------------------------------------------
(* The inputs and the answers of the collaborators, drawn from small sets. *)

ScriptName == <<"transcribe.py">>

VideoPaths == { <<"a.mp4">>, <<"a", DQ, ".mp4">>, <<"a", BS, "a.mp4">> }
ModelSizes == { <<"base">>, <<"tiny">>, <<"bogus">> }
ExtraArgs  == { <<"extra">> }

\* the positional arguments: a path, then a size, then anything
ArgAt(i) == IF i = 1 THEN VideoPaths ELSE IF i = 2 THEN ModelSizes ELSE ExtraArgs

ArgLists ==
    UNION { { a \in [1..n -> VideoPaths \cup ModelSizes \cup ExtraArgs] :
                \A i \in 1..n : a[i] \in ArgAt(i) } : n \in 0..MaxArgs }

TmpNames == { <<"/tmp/tmpa.wav">>, <<"/tmp/tmpb.wav">> }

\* what the media tool may write to its stderr when it fails
ToolErrors == { <<"a.mp4: No such file or directory">>,
                <<"Invalid data found", NL, "when processing input">> }

ReturnCodes == { "1", "183" }

\* messages of the exceptions the recognition library may raise
LibErrors == { <<"Invalid model size">>,
               <<"Invalid model size ", DQ, "bogus", DQ>>,
               <<"cannot open C:", BS, "n", "ew">>,
               <<"decode failed", NL, "at frame">> }

SegTexts == { <<>>, <<SP>>, <<"Hello", SP>>, <<SP, "world">>,
              <<NL, "a", SP, "a", SP>>, <<"say ", DQ, "a", DQ>> }

SegLists == UNION { [1..n -> SegTexts] : n \in 0..MaxSegs }

Infos == { [language |-> PyStr(<<"en">>), language_probability |-> PyFloat("0.98"),
            duration |-> PyFloat("12.5")],
           [language |-> PyStr(<<"fr">>), language_probability |-> PyFloat("0.5"),
            duration |-> PyFloat("0.0")],
           [language |-> PyStr(<<"en">>), language_probability |-> PyFloat32("0.98"),
            duration |-> PyFloat("12.5")] }

NoInfo == [language |-> PyStr(<<>>), language_probability |-> PyFloat("0"),
           duration |-> PyFloat("0")]

-----------------------------------------------------------------------------
(* The temporary file and the record of the external steps. *)

\* os.path.exists(audio_path)
Exists(f) == f \in {"empty", "partial", "audio"}

Step(name, ok, arg) == [step |-> name, ok |-> ok, arg |-> arg, tmpExisted |-> Exists(tmp)]

NoResult == <<>>

\* the argument list handed to subprocess.run
FfmpegCmd(vp, ap) ==
    << <<"ffmpeg">>, <<"-i">>, vp, <<"-vn">>, <<"-acodec">>, <<"pcm_s16le">>,
       <<"-ar">>, <<"16000">>, <<"-ac">>, <<"1">>, <<"-y">>, ap >>

UsageText == <<"Usage: transcribe.py <video_path> [model_size]">>

UsageNotJson == UsageText

\* the line the script prints when it is given no video path
UsageLine == <<"{", DQ, "error", DQ, ":", SP, DQ>> \o UsageText \o <<DQ, "}">>

\* f'{{"error": "{str(e)}"}}'
Envelope(m) == <<"{", DQ, "error", DQ, ":", SP, DQ>> \o m \o <<DQ, "}">>

Init ==
    /\ sys_argv \in { <<ScriptName>> \o a : a \in ArgLists }
    /\ pc = "main"
    /\ video_path = <<>>
    /\ model_size = <<>>
    /\ audio_path = <<>>
    /\ tmp = "absent"
    /\ toolStderr = <<>>
    /\ info = NoInfo
    /\ segments = <<>>
    /\ yielded = <<>>
    /\ transcript_parts = <<>>
    /\ result = NoResult
    /\ exc = NoExc
    /\ stdout = <<>>
    /\ stderr = <<>>
    /\ exitCode = <<>>
    /\ log = <<>>

-----------------------------------------------------------------------------
(* __main__ *)

\* if len(sys.argv) < 2: print(usage, file=sys.stderr); sys.exit(1)
MainUsage ==
    /\ pc = "main"
    /\ PyLen(sys_argv) < 2
    /\ stderr' = Append(stderr, UsageLine)
    /\ exitCode' = <<1>>
    /\ pc' = "done"
    /\ UNCHANGED <<sys_argv, video_path, model_size, audio_path, tmp, toolStderr,
                   info, segments, yielded, transcript_parts, result, exc, stdout, log>>

ModelSizeOffByOne(argv) == IF PyLen(argv) > 3 THEN PyIndex(argv, 3) ELSE <<"base">>

\* sys.argv[2] if len(sys.argv) > 2 else "base"
ModelSizeArg(argv) == IF PyLen(argv) > 2 THEN PyIndex(argv, 2) ELSE <<"base">>

\* video_path = sys.argv[1]; model_size = ...; the call of transcribe_video
MainArgs ==
    /\ pc = "main"
    /\ ~(PyLen(sys_argv) < 2)
    /\ video_path' = PyIndex(sys_argv, 1)
    /\ model_size' = ModelSizeArg(sys_argv)
    /\ pc' = "tempfile"
    /\ UNCHANGED <<sys_argv, audio_path, tmp, toolStderr, info, segments, yielded,
                   transcript_parts, result, exc, stdout, stderr, exitCode, log>>

\* result returned: print(json.dumps(result)), and the script ends
MainPrint ==
    /\ pc = "print"
    /\ IF JsonSerializable(result)
         THEN /\ stdout' = Append(stdout, JsonDumps(result))
              /\ exitCode' = <<0>>
              /\ pc' = "done"
              /\ exc' = exc
         ELSE /\ exc' = Raise(StrNotSerializable)
              /\ pc' = "except"
              /\ UNCHANGED <<stdout, exitCode>>
    /\ UNCHANGED <<sys_argv, video_path, model_size, audio_path, tmp, toolStderr,
                   info, segments, yielded, transcript_parts, result, stderr, log>>

\* except Exception as e: print(envelope, file=sys.stderr); sys.exit(1)
MainExcept ==
    /\ pc = "except"
    /\ stderr' = Append(stderr, Envelope(exc.msg))
    /\ exitCode' = <<1>>
    /\ pc' = "done"
    /\ UNCHANGED <<sys_argv, video_path, model_size, audio_path, tmp, toolStderr,
                   info, segments, yielded, transcript_parts, result, exc, stdout, log>>

-----------------------------------------------------------------------------
(* transcribe_video *)

\* with tempfile.NamedTemporaryFile(suffix='.wav', delete=False) as audio_file
CreateTemp ==
    /\ pc = "tempfile"
    /\ \/ \E name \in TmpNames :
            /\ audio_path' = name
            /\ tmp' = "empty"
            /\ log' = Append(log, Step("tempfile", TRUE, name))
            /\ pc' = "ffmpeg"
            /\ exc' = exc
       \/ /\ exc' = Raise(StrNoTempDir)
          /\ log' = Append(log, Step("tempfile", FALSE, <<>>))
          /\ pc' = "except"
          /\ UNCHANGED <<audio_path, tmp>>
    /\ UNCHANGED <<sys_argv, video_path, model_size, toolStderr, info, segments,
                   yielded, transcript_parts, result, stdout, stderr, exitCode>>

FfmpegRetried(ok) == IF ok THEN "load" ELSE "ffmpeg"

FfmpegUnchecked(ok) == "load"

\* check=True: a failure of the tool leaves the try block
AfterFfmpeg(ok) == IF ok THEN "load" ELSE "finally"

\* subprocess.run(ffmpeg_cmd, check=True, capture_output=True)
RunFfmpeg ==
    /\ pc = "ffmpeg"
    /\ LET cmd == FfmpegCmd(video_path, audio_path) IN
       \/ /\ tmp' = "audio"                        \* the tool exits 0
          /\ log' = Append(log, Step("ffmpeg", TRUE, cmd[Len(cmd)]))
          /\ pc' = AfterFfmpeg(TRUE)
          /\ UNCHANGED <<toolStderr, exc>>
       \/ \E rc \in ReturnCodes, err \in ToolErrors, left \in {"empty", "partial"} :
            /\ tmp' = left                          \* the tool exits non-zero
            /\ toolStderr' = err
            /\ exc' = Raise(StrCalledProcessError(cmd, rc))
            /\ log' = Append(log, Step("ffmpeg", FALSE, cmd[Len(cmd)]))
            /\ pc' = AfterFfmpeg(FALSE)
       \/ /\ exc' = Raise(StrFileNotFound(cmd[1]))  \* no such executable
          /\ log' = Append(log, Step("ffmpeg", FALSE, cmd[Len(cmd)]))
          /\ pc' = AfterFfmpeg(FALSE)
          /\ UNCHANGED <<tmp, toolStderr>>
    /\ UNCHANGED <<sys_argv, video_path, model_size, audio_path, info, segments,
                   yielded, transcript_parts, result, stdout, stderr, exitCode>>

\* model = WhisperModel(model_size, device="cpu", compute_type="int8")
LoadModel ==
    /\ pc = "load"
    /\ \/ /\ log' = Append(log, Step("load", TRUE, model_size))
          /\ pc' = "transcribe"
          /\ exc' = exc
       \/ \E m \in LibErrors :
            /\ exc' = Raise(m)
            /\ log' = Append(log, Step("load", FALSE, model_size))
            /\ pc' = "finally"
    /\ UNCHANGED <<sys_argv, video_path, model_size, audio_path, tmp, toolStderr,
                   info, segments, yielded, transcript_parts, result, stdout,
                   stderr, exitCode>>

\* segments, info = model.transcribe(audio_path, beam_size=5); transcript_parts = []
Transcribe ==
    /\ pc = "transcribe"
    /\ \/ \E i \in Infos, g \in SegLists :
            /\ info' = i
            /\ segments' = g
            /\ transcript_parts' = <<>>
            /\ log' = Append(log, Step("transcribe", TRUE, audio_path))
            /\ pc' = "for"
            /\ exc' = exc
       \/ \E m \in LibErrors :
            /\ exc' = Raise(m)
            /\ log' = Append(log, Step("transcribe", FALSE, audio_path))
            /\ pc' = "finally"
            /\ UNCHANGED <<info, segments, transcript_parts>>
    /\ UNCHANGED <<sys_argv, video_path, model_size, audio_path, tmp, toolStderr,
                   yielded, result, stdout, stderr, exitCode>>

\* for segment in segments: transcript_parts.append(segment.text.strip())
NextSegment ==
    /\ pc = "for"
    /\ segments # <<>>
    /\ transcript_parts' = Append(transcript_parts, Strip(Head(segments)))
    /\ yielded' = Append(yielded, Head(segments))
    /\ segments' = Tail(segments)
    /\ UNCHANGED <<sys_argv, pc, video_path, model_size, audio_path, tmp, toolStderr,
                   info, result, exc, stdout, stderr, exitCode, log>>

\* the generator raises while decoding its next segment
SegmentRaises ==
    /\ pc = "for"
    /\ \E m \in LibErrors : exc' = Raise(m)
    /\ log' = Append(log, Step("segments", FALSE, audio_path))
    /\ pc' = "finally"
    /\ UNCHANGED <<sys_argv, video_path, model_size, audio_path, tmp, toolStderr,
                   info, segments, yielded, transcript_parts, result, stdout,
                   stderr, exitCode>>

\* the generator is exhausted: the loop ends
EndOfSegments ==
    /\ pc = "for"
    /\ segments = <<>>
    /\ log' = Append(log, Step("segments", TRUE, audio_path))
    /\ pc' = "return"
    /\ UNCHANGED <<sys_argv, video_path, model_size, audio_path, tmp, toolStderr,
                   info, segments, yielded, transcript_parts, result, exc, stdout,
                   stderr, exitCode>>

ResultDictSwapped(transcript, i) ==
    << <<"transcript", PyStr(transcript)>>,
       <<"language", i.language>>,
       <<"language_probability", i.duration>>,
       <<"duration", i.language_probability>> >>

\* the dict of the return statement, in insertion order
ResultDict(transcript, i) ==
    << <<"transcript", PyStr(transcript)>>,
       <<"language", i.language>>,
       <<"language_probability", i.language_probability>>,
       <<"duration", i.duration>> >>

\* full_transcript = " ".join(transcript_parts); return {...}
Return ==
    /\ pc = "return"
    /\ result' = ResultDict(Join(<<SP>>, transcript_parts), info)
    /\ log' = Append(log, Step("assemble", TRUE, audio_path))
    /\ pc' = "finally"
    /\ UNCHANGED <<sys_argv, video_path, model_size, audio_path, tmp, toolStderr,
                   info, segments, yielded, transcript_parts, exc, stdout, stderr,
                   exitCode>>

UnlinkSkipped(f) == f

\* if os.path.exists(audio_path): os.unlink(audio_path)
Unlink(f) == IF Exists(f) THEN "deleted" ELSE f

ExceptionSwallowed(e) == "print"

\* leaving the finally block: the exception, if one is in flight, goes on
AfterFinally(e) == IF e.raised THEN "except" ELSE "print"

Finally ==
    /\ pc = "finally"
    /\ tmp' = Unlink(tmp)
    /\ log' = Append(log, Step("unlink", TRUE, audio_path))
    /\ pc' = AfterFinally(exc)
    /\ UNCHANGED <<sys_argv, video_path, model_size, audio_path, toolStderr, info,
                   segments, yielded, transcript_parts, result, exc, stdout, stderr,
                   exitCode>>

-----------------------------------------------------------------------------
Next ==
    \/ MainUsage
    \/ MainArgs
    \/ CreateTemp
    \/ RunFfmpeg
    \/ LoadModel
    \/ Transcribe
    \/ NextSegment
    \/ SegmentRaises
    \/ EndOfSegments
    \/ Return
    \/ Finally
    \/ MainPrint
    \/ MainExcept

Spec == Init /\ [][Next]_vars

-----------------------------------------------------------------------------
(* A reader of JSON text, used to state what the two streams must hold: an  *)
(* object whose values are strings or numbers.                              *)

JsonFail == [ok |-> FALSE, val |-> <<>>, next |-> 0]

IsJsonSpace(c) == c \in {SP, NL, "\t"}

IsNumber(c) == c \in { x.v[1] : x \in { i.language_probability : i \in Infos }
                                      \cup { i.duration : i \in Infos } }

RECURSIVE SkipSpace(_, _)
SkipSpace(t, i) == IF i <= Len(t) /\ IsJsonSpace(t[i]) THEN SkipSpace(t, i + 1) ELSE i

\* the number of backslashes that end just before position i, from position s on
BackslashRun(t, s, i) ==
    CHOOSE n \in 0..(i - s) :
        /\ \A k \in (i - n)..(i - 1) : t[k] = BS
        /\ (i - n - 1 < s \/ t[i - n - 1] # BS)

\* position i, inside a string that began at s, follows a backslash that escapes it
IsEscaped(t, s, i) == BackslashRun(t, s, i) % 2 = 1

\* the string whose opening quote is at position i: its decoded characters, and
\* the position after its closing quote
ReadString(t, i) ==
    IF ~(i <= Len(t) /\ t[i] = DQ) THEN JsonFail
    ELSE LET s      == i + 1
             closes == { j \in s..Len(t) : t[j] = DQ /\ ~IsEscaped(t, s, j) }
         IN  IF closes = {} THEN JsonFail
             ELSE LET j    == CHOOSE x \in closes : \A y \in closes : x <= y
                      kept == { k \in s..(j - 1) : IsEscaped(t, s, k) \/ t[k] # BS }
                      good == \A k \in s..(j - 1) :
                                 IF IsEscaped(t, s, k) THEN t[k] \in {DQ, BS, "n"}
                                 ELSE t[k] \notin {NL, "\t"}
                      at(n) == CHOOSE k \in kept : Cardinality({ x \in kept : x <= k }) = n
                  IN  IF ~good THEN JsonFail
                      ELSE [ok   |-> TRUE,
                            val  |-> [n \in 1..Cardinality(kept) |->
                                        IF IsEscaped(t, s, at(n)) /\ t[at(n)] = "n"
                                        THEN NL ELSE t[at(n)]],
                            next |-> j + 1]

ReadValue(t, i) ==
    IF i > Len(t) THEN JsonFail
    ELSE IF t[i] = DQ THEN
        LET r == ReadString(t, i)
        IN  IF r.ok THEN [ok |-> TRUE, val |-> PyStr(r.val), next |-> r.next] ELSE JsonFail
    ELSE IF IsNumber(t[i]) THEN [ok |-> TRUE, val |-> PyFloat(t[i]), next |-> i + 1]
    ELSE JsonFail

\* the members of an object from position i on, up to its closing brace and the end
RECURSIVE ReadMembers(_, _, _)
ReadMembers(t, i, acc) ==
    LET k == ReadString(t, SkipSpace(t, i)) IN
    IF ~k.ok THEN JsonFail ELSE
    LET c == SkipSpace(t, k.next) IN
    IF ~(c <= Len(t) /\ t[c] = ":") THEN JsonFail ELSE
    LET x == ReadValue(t, SkipSpace(t, c + 1)) IN
    IF ~x.ok THEN JsonFail ELSE
    LET e    == SkipSpace(t, x.next)
        acc2 == Append(acc, <<k.val, x.val>>)
    IN  IF e > Len(t) THEN JsonFail
        ELSE IF t[e] = "," THEN ReadMembers(t, e + 1, acc2)
        ELSE IF t[e] = "}" /\ SkipSpace(t, e + 1) > Len(t)
             THEN [ok |-> TRUE, val |-> acc2, next |-> Len(t) + 1]
        ELSE JsonFail

\* json.loads(t) when t is an object: its items in order
JsonLoads(t) ==
    LET b == SkipSpace(t, 1) IN
    IF ~(b <= Len(t) /\ t[b] = "{") THEN JsonFail
    ELSE LET m == SkipSpace(t, b + 1) IN
         IF m <= Len(t) /\ t[m] = "}" /\ SkipSpace(t, m + 1) > Len(t)
         THEN [ok |-> TRUE, val |-> <<>>, next |-> Len(t) + 1]
         ELSE ReadMembers(t, b + 1, <<>>)

SingleLine(t) == \A i \in 1..Len(t) : t[i] # NL

Contains(t, sub) == \E i \in 0..(Len(t) - Len(sub)) : SubSeq(t, i + 1, i + Len(sub)) = sub

\* the steps of the log named s, and those of them that succeeded
StepsNamed(s) == { k \in 1..Len(log) : log[k].step = s }
Succeeded(s)  == \E k \in StepsNamed(s) : log[k].ok
FailedAt(s)   == \E k \in StepsNamed(s) : ~log[k].ok

\* transcribe_video has returned or raised
CallOver == pc \in {"print", "except", "done"} /\ PyLen(sys_argv) >= 2

-----------------------------------------------------------------------------
(* C1: once transcribe_video has returned or raised after creating the      *)
(* temporary file, the file does not exist, whichever step failed; and      *)
(* nothing is on standard output or standard error while it still exists.   *)
C1_TempFileRemoved ==
    /\ (CallOver /\ Succeeded("tempfile")) => tmp = "deleted"
    /\ (stdout # <<>> \/ stderr # <<>>) => ~Exists(tmp)

\* the tool failed after writing part of its output, and the envelope is out
C1_Witness ==
    /\ pc = "done" /\ stderr # <<>> /\ tmp = "deleted"
    /\ \E k \in StepsNamed("unlink") : log[k].tmpExisted
    /\ FailedAt("ffmpeg") /\ toolStderr # <<>>

(* C2: with no positional argument the process exits 1 with one line on     *)
(* standard error, a JSON object whose only key is "error" and whose value  *)
(* mentions usage; no step of the pipeline is ever taken and standard       *)
(* output stays empty.                                                      *)
C2_UsageError ==
    PyLen(sys_argv) < 2 =>
        /\ pc \in {"main", "done"}
        /\ log = <<>> /\ tmp = "absent" /\ stdout = <<>>
        /\ pc = "done" =>
             /\ exitCode = <<1>>
             /\ Len(stderr) = 1
             /\ LET r == JsonLoads(stderr[1]) IN
                  /\ r.ok
                  /\ Len(r.val) = 1
                  /\ r.val[1][1] = <<"error">>
                  /\ r.val[1][2].ty = "str"
                  /\ Contains(r.val[1][2].v, UsageText)

C2_Witness == PyLen(sys_argv) < 2 /\ pc = "done" /\ stderr # <<>>

(* C3: once a step has failed nothing is ever on standard output, and the   *)
(* process ends with exit code 1 and exactly one line on standard error,    *)
(* the envelope built around the failure's message.                         *)
C3_FailureReported ==
    exc.raised =>
        /\ stdout = <<>>
        /\ exitCode # <<0>>
        /\ pc = "done" =>
             /\ exitCode = <<1>>
             /\ Len(stderr) = 1
             /\ stderr[1] = <<"{", DQ, "error", DQ, ":", SP, DQ>> \o exc.msg \o <<DQ, "}">>

\* serialising the result failed, after a transcript had been assembled
C3_Witness ==
    /\ pc = "done" /\ exc.msg = StrNotSerializable
    /\ result # NoResult /\ result[1][2].v # <<>>

\* every step of the pipeline was taken and none failed
C4_AllSucceeded ==
    /\ \A k \in 1..Len(log) : log[k].ok
    /\ Succeeded("unlink")
    /\ Succeeded("assemble")
    /\ ~exc.raised

(* C4: when every step has succeeded the process ends with exit code 0,     *)
(* nothing on standard error, and one line on standard output: a JSON       *)
(* object with the keys transcript, language, language_probability and      *)
(* duration, the last three with the values of the info record.  Exit code  *)
(* 0 is reached in no other way.                                            *)
C4_SuccessOutput ==
    /\ (pc = "done" /\ C4_AllSucceeded) =>
          /\ exitCode = <<0>>
          /\ stderr = <<>>
          /\ Len(stdout) = 1
          /\ SingleLine(stdout[1])
          /\ LET r == JsonLoads(stdout[1]) IN
               /\ r.ok
               /\ Len(r.val) = 4
               /\ r.val[1][1] = <<"transcript">>
               /\ r.val[1][2].ty = "str"
               /\ r.val[2] = << <<"language">>, info.language >>
               /\ r.val[3] = << <<"language_probability">>, info.language_probability >>
               /\ r.val[4] = << <<"duration">>, info.duration >>
    /\ exitCode = <<0>> => (pc = "done" /\ C4_AllSucceeded)

\* a success whose probability and duration differ and whose transcript needs escaping
C4_Witness ==
    /\ exitCode = <<0>>
    /\ info.language_probability # info.duration
    /\ \E i \in 1..Len(result[1][2].v) : result[1][2].v[i] = DQ

\* t is s without its leading and trailing whitespace; t is the trimmed texts of
\* segs, in order, with one space between each two
C5_IsTrimOf(t, s) ==
    \E i \in 1..(Len(s) + 1), j \in 0..Len(s) :
        /\ t = SubSeq(s, i, j)
        /\ \A k \in 1..(i - 1) : IsSpace(s[k])
        /\ \A k \in (j + 1)..Len(s) : IsSpace(s[k])
        /\ t # <<>> => (~IsSpace(t[1]) /\ ~IsSpace(t[Len(t)]))

RECURSIVE C5_IsTranscriptOf(_, _)
C5_IsTranscriptOf(t, segs) ==
    IF segs = <<>> THEN t = <<>>
    ELSE IF Len(segs) = 1 THEN C5_IsTrimOf(t, segs[1])
    ELSE \E n \in 0..(Len(t) - 1) :
            /\ C5_IsTrimOf(SubSeq(t, 1, n), segs[1])
            /\ t[n + 1] = SP
            /\ C5_IsTranscriptOf(SubSeq(t, n + 2, Len(t)), Tail(segs))

(* C5: the transcript is the segments' texts in order, each without its     *)
(* leading and trailing whitespace, with exactly one space between          *)
(* consecutive segments; the joined text is not trimmed again, and no       *)
(* segments give the empty text.                                            *)
C5_Transcript ==
    result # NoResult =>
        /\ result[1][1] = "transcript"
        /\ C5_IsTranscriptOf(result[1][2].v, yielded)

\* ["Hello ", " world"] gave "Hello world"
C5_Witness ==
    /\ yielded = << <<"Hello", SP>>, <<SP, "world">> >>
    /\ result # NoResult
    /\ result[1][2].v = <<"Hello", SP, "world">>

(* C6: when the media tool exits non-zero, the line written to standard     *)
(* error holds what the tool wrote to its own stderr.                       *)
C6_EnvelopeCarriesToolOutput ==
    (pc = "done" /\ FailedAt("ffmpeg") /\ toolStderr # <<>>) =>
        /\ Len(stderr) = 1
        /\ \/ Contains(stderr[1], toolStderr)
           \/ Contains(stderr[1], JsonEscape(toolStderr))

(* C7: whatever the failure message, the line written to standard error is  *)
(* one line of well-formed JSON, an object whose single member "error"      *)
(* decodes to the message.                                                  *)
C7_EnvelopeIsJson ==
    (pc = "done" /\ exitCode = <<1>>) =>
        LET msg == IF exc.raised THEN exc.msg ELSE UsageText
            r   == JsonLoads(stderr[1])
        IN  /\ SingleLine(stderr[1])
            /\ r.ok
            /\ r.val = << << <<"error">>, PyStr(msg) >> >>

\* the size the command line asks for
C8_Expected == IF Len(sys_argv) >= 3 THEN sys_argv[3] ELSE <<"base">>

(* C8: the model is loaded with the second positional argument as given,    *)
(* whatever it is, and with "base" when only the video path is given;       *)
(* later arguments play no part.                                            *)
C8_ModelSize ==
    /\ (PyLen(sys_argv) >= 2 /\ pc # "main") => model_size = C8_Expected
    /\ \A k \in StepsNamed("load") : log[k].arg = C8_Expected

\* an unrecognised size reached the loader, with a third argument present
C8_Witness ==
    /\ Len(sys_argv) = 4
    /\ sys_argv[3] = <<"bogus">>
    /\ \E k \in StepsNamed("load") : log[k].arg = <<"bogus">>

\* the steps of a call, in the order of the source
C9_StepOrder ==
    <<"tempfile", "ffmpeg", "load", "transcribe", "segments", "assemble", "unlink">>

(* C9: the steps are taken in the order temporary file, media tool, model   *)
(* load, inference, segments, result, deletion; a step other than the       *)
(* deletion is taken only when all before it succeeded; the media tool and  *)
(* the inference are given the temporary file's path, and the file exists   *)
(* when the media tool is invoked; the deletion is the last step.           *)
C9_Order ==
    /\ \A k \in 1..Len(log) :
         LET e == log[k] IN
         /\ e.step # "unlink" =>
              /\ C9_StepOrder[k] = e.step
              /\ \A j \in 1..(k - 1) : log[j].ok
         /\ e.step = "unlink" =>
              /\ k = Len(log)
              /\ k >= 2
              /\ log[1].step = "tempfile" /\ log[1].ok
         /\ e.step = "ffmpeg" => (e.tmpExisted /\ e.arg = log[1].arg)
         /\ e.step = "transcribe" => e.arg = log[1].arg
    /\ exitCode = <<0>> => Len(log) = Len(C9_StepOrder)

\* model loading failed: inference was never run and the file was deleted
C9_Witness ==
    /\ pc = "done"
    /\ FailedAt("load")
    /\ StepsNamed("transcribe") = {}
    /\ log[Len(log)].step = "unlink"

\* the temporary files created so far; each step taken at most once
C10_FilesCreated == Cardinality({ k \in StepsNamed("tempfile") : log[k].ok })

C10_OnceEach ==
    /\ Cardinality(StepsNamed("tempfile")) <= 1
    /\ Cardinality(StepsNamed("ffmpeg")) <= 1
    /\ Cardinality(StepsNamed("load")) <= 1
    /\ Cardinality(StepsNamed("transcribe")) <= 1

(* C10: in one invocation the media tool is invoked at most once, the model *)
(* loaded at most once and inference started at most once, and exactly one  *)
(* temporary file is created by the time the call is over.                  *)
C10_ExactlyOneTempFile ==
    /\ C10_OnceEach
    /\ CallOver => C10_FilesCreated = 1

(* C10, amended: each of the steps is taken at most once, and by the time   *)
(* the call is over one temporary file has been created, or none when the   *)
(* creation of the temporary file itself failed.                            *)
C10_AtMostOnce ==
    /\ C10_OnceEach
    /\ C10_FilesCreated <= 1
    /\ CallOver => /\ Cardinality(StepsNamed("tempfile")) = 1
                   /\ C10_FilesCreated = (IF FailedAt("tempfile") THEN 0 ELSE 1)

\* the media tool failed and the call ended without a second attempt
C10_Witness ==
    /\ pc = "done"
    /\ FailedAt("ffmpeg")
    /\ Cardinality(StepsNamed("ffmpeg")) = 1
    /\ C10_FilesCreated = 1

====
